---------------------------- MODULE Spec2Model ----------------------------
(***************************************************************************)
(* A model of the upload bot (src/bot.py): the message handler handle_url  *)
(* with its access policy and rate limiter, and the worker tasks           *)
(* (download_and_upload) that the handler submits to the thread pool.      *)
(*                                                                         *)
(* The handler runs on the dispatcher's thread(s); every worker task runs  *)
(* on a pool thread.  Each action is one step of one thread between two    *)
(* points where another thread can run.  Every call into the messaging     *)
(* platform or the HTTP client made by a worker may succeed or raise.      *)
(* The replies the handler itself sends are taken to be delivered.         *)
(* time.time() is read as a clock that never runs backwards, counted in    *)
(* seconds from its first reading.                                         *)
(***************************************************************************)
EXTENDS Integers, Sequences, FiniteSets, TLC

(***************************************************************************)
(* Bounds of the model.                                                    *)
(***************************************************************************)
\* messages received while no worker runs (SpecHandler)
MaxMessages == 4
\* messages received while the workers run (Spec)
MaxRequests == 1
\* body chunks a response delivers
MaxChunks == 1
\* the largest configured RATE_LIMIT
MaxRateLimit == 2
\* the clock's last reading
MaxTime == 120

(***************************************************************************)
(* Program constants.                                                      *)
(***************************************************************************)
MAX_FILE_SIZE == 2000 * 1024 * 1024
\* the literal 60 of is_rate_limited
Window == 60
\* ThreadPoolExecutor(max_workers=4)
max_workers == 4

(***************************************************************************)
(* Inputs.                                                                 *)
(***************************************************************************)
Users == {7, 42}
\* the values of the ALLOWED_USERS environment variable, as characters
\* (<<>>: unset or empty)
AllowedEnvs == {<<>>, <<"7">>}
\* more of them, for the access check alone: two ids in either order, an
\* id after a blank, an empty field
AccessEnvs ==
    AllowedEnvs \cup
      { <<"4", "2", ",", "7">>, <<"7", ",", "4", "2">>,
        <<"7", ",", " ", "4", "2">>, <<",">>, <<"4">> }
\* the values of int(RATE_LIMIT)
RateLimits == (0 - 1) .. MaxRateLimit
\* message texts, as tokens: a leading blank, a scheme, the rest
Texts ==
    { <<"http://", "host", "/f.png">>,
      <<" ", "https://", "host">>,
      <<"not-a-url">> }
\* how far the clock has moved on between two readings
Deltas == {0, Window - 1, Window}
\* Content-Length headers: 0 stands for an absent header
ContentLengths == {0, MAX_FILE_SIZE, MAX_FILE_SIZE + 1}
\* what content sniffing can return: <<type, subtype>> of "type/subtype"
MimeTypes ==
    { <<"image", "png">>, <<"video", "mp4">>, <<"audio", "mpeg">>,
      <<"application", "pdf">> }

(***************************************************************************)
(* Helpers.                                                                *)
(***************************************************************************)
Digit(d) ==
    CASE d = 0 -> "0" [] d = 1 -> "1" [] d = 2 -> "2" [] d = 3 -> "3"
      [] d = 4 -> "4" [] d = 5 -> "5" [] d = 6 -> "6" [] d = 7 -> "7"
      [] d = 8 -> "8" [] d = 9 -> "9"

\* str(user_id) of a non-negative int
RECURSIVE ToStr(_)
ToStr(n) == IF n < 10 THEN Digit(n) ELSE ToStr(n \div 10) \o Digit(n % 10)

\* s.split(','), s a sequence of characters: the fields as strings
RECURSIVE SplitComma(_, _)
SplitComma(s, cur) ==
    IF s = <<>> THEN <<cur>>
    ELSE IF Head(s) = "," THEN <<cur>> \o SplitComma(Tail(s), "")
    ELSE SplitComma(Tail(s), cur \o Head(s))

\* ALLOWED_USERS as configured from the environment value env
AllowedUsersOf(env) == IF env = <<>> THEN <<>> ELSE SplitComma(env, "")

InList(x, list) == \E i \in 1..Len(list) : list[i] = x

\* text.strip(), on tokens
RECURSIVE LStrip(_)
LStrip(text) ==
    IF text # <<>> /\ Head(text) = " " THEN LStrip(Tail(text)) ELSE text

RECURSIVE RStrip(_)
RStrip(text) ==
    IF text # <<>> /\ text[Len(text)] = " "
    THEN RStrip(SubSeq(text, 1, Len(text) - 1)) ELSE text

Strip(text) == RStrip(LStrip(text))

StartsWith(text, prefix) == text # <<>> /\ Head(text) = prefix

\* a pruning that keeps the entries that are 60 seconds old
PruneLoose(list, now) == SelectSeq(list, LAMBDA t : now - t <= Window)

\* [t for t in list if now - t < 60]
RECURSIVE Prune(_, _)
Prune(list, now) ==
    IF list = <<>> THEN <<>>
    ELSE IF now - Head(list) < Window
         THEN <<Head(list)>> \o Prune(Tail(list), now)
         ELSE Prune(Tail(list), now)


(***************************************************************************)
(* Configuration and threads.                                              *)
(***************************************************************************)
\* a dispatcher that runs the handler on its pool instead
run_async_on == TRUE

\* main() registers handle_url with MessageHandler(filters, handle_url):
\* run_async is not given, so the dispatcher runs handle_url itself
run_async == FALSE

\* the threads that can execute handle_url
HandlerThreads == IF run_async THEN {1, 2} ELSE {1}

\* the order with the rate-limit check ahead of the access check
HandlerOrderRateFirst == <<"rate", "auth", "validate", "submit">>

\* the statements of handle_url in program order: the access check, the
\* rate-limit check, the URL validation, the status message and submit
HandlerOrder == <<"auth", "rate", "validate", "submit">>

\* a rejection that replies and falls through to the next statement
RejectedFallThrough(stage) == stage + 1

\* the `return` that follows a rejection's reply: the stage control goes to
Rejected(stage) == Len(HandlerOrder) + 1

StageName(i) ==
    IF i = 0 THEN "idle"
    ELSE IF i > Len(HandlerOrder) THEN "end" ELSE HandlerOrder[i]

VARIABLES
    ALLOWED_USERS,   \* the configured allow-list, a list of strings
    RATE_LIMIT,      \* the configured threshold
    user_downloads,  \* the dict user id -> list of timestamps
    clock,           \* the last reading of time.time(); -1 before the first
    handler,         \* per handler thread: where it is in handle_url, its locals
    tasks,           \* the tasks submitted to the executor, in order of submission
    checks,          \* history: per user, the rate-limit checks made, [t, ok]
    nmsgs,           \* messages received so far
    nurls,           \* messages received so far that carry an http(s) URL
    budget           \* the messages, and those with a URL, that will be
                     \* received, the time by which they are, and whether
                     \* the tasks are followed step by step

vars ==
    <<ALLOWED_USERS, RATE_LIMIT, user_downloads, clock, handler, tasks,
      checks, nmsgs, nurls, budget>>

config == <<ALLOWED_USERS, RATE_LIMIT, budget>>

(***************************************************************************)
(* Access policy and URL validation.                                       *)
(***************************************************************************)
\* an access check for which an empty allow-list allows nobody
is_user_listed(user_id) == InList(ToStr(user_id), ALLOWED_USERS)

\* not ALLOWED_USERS or str(user_id) in ALLOWED_USERS
is_user_allowed(user_id) ==
    ALLOWED_USERS = <<>> \/ InList(ToStr(user_id), ALLOWED_USERS)

\* url.startswith('http://') or url.startswith('https://')
ValidUrl(url) == StartsWith(url, "http://") \/ StartsWith(url, "https://")

\* the list stored for a user, empty when the user has no key yet
Stored(u) == IF u \in DOMAIN user_downloads THEN user_downloads[u] ELSE <<>>

(***************************************************************************)
(* The message handler, handle_url.                                        *)
(***************************************************************************)
IdleHandler ==
    [stage |-> 0, rl |-> "now", user |-> 0, text |-> <<>>, url |-> <<>>,
     now |-> 0, kept |-> <<>>, replies |-> <<>>, snap |-> <<>>, tasks0 |-> 0]

At(h, name) == StageName(handler[h].stage) = name

Goto(h, stage, reply) ==
    handler' = [handler EXCEPT ![h].stage = stage,
                               ![h].replies = IF reply = "" THEN @
                                              ELSE Append(@, reply)]

\* the dispatcher hands the next text message to handle_url
H_Receive(h) ==
    /\ At(h, "idle")
    /\ nmsgs < budget.msgs
    /\ \E u \in Users, text \in Texts :
         /\ ValidUrl(Strip(text)) => nurls < budget.urls
         /\ handler' = [handler EXCEPT ![h] =
                [IdleHandler EXCEPT !.stage = 1, !.user = u, !.text = text,
                                    !.snap = user_downloads,
                                    !.tasks0 = Len(tasks)]]
         /\ nurls' = IF ValidUrl(Strip(text)) THEN nurls + 1 ELSE nurls
    /\ nmsgs' = nmsgs + 1
    /\ UNCHANGED <<config, user_downloads, clock, tasks, checks>>

\* if not is_user_allowed(user_id): reply; return
H_Auth(h) ==
    /\ At(h, "auth")
    /\ IF is_user_allowed(handler[h].user)
       THEN Goto(h, handler[h].stage + 1, "")
       ELSE Goto(h, Rejected(handler[h].stage), "unauthorized")
    /\ UNCHANGED <<config, user_downloads, clock, tasks, checks, nmsgs, nurls>>

\* a limiter that keeps one list for all users
KeyOfAll(h) == 0

\* the key of user_downloads that a check works on: user_id
Key(h) == handler[h].user

\* a reading of the clock, d seconds after the last one
Reading(d) == IF clock < 0 THEN 0 ELSE clock + d

\* is_rate_limited: now = time.time(); a missing key gets an empty list
R_Now(h) ==
    /\ At(h, "rate") /\ handler[h].rl = "now"
    /\ \E d \in Deltas :
         /\ Reading(d) <= budget.time
         /\ clock' = Reading(d)
         /\ handler' = [handler EXCEPT ![h].now = Reading(d), ![h].rl = "read"]
    /\ user_downloads' =
         IF Key(h) \in DOMAIN user_downloads THEN user_downloads
         ELSE user_downloads @@ (Key(h) :> <<>>)
    /\ UNCHANGED <<config, tasks, checks, nmsgs, nurls>>

\* is_rate_limited: the list comprehension reads the stored list
R_PruneRead(h) ==
    /\ At(h, "rate") /\ handler[h].rl = "read"
    /\ handler' = [handler EXCEPT
            ![h].kept = Prune(user_downloads[Key(h)], handler[h].now),
            ![h].rl = "write"]
    /\ UNCHANGED <<config, user_downloads, clock, tasks, checks, nmsgs, nurls>>

\* is_rate_limited: the pruned list is stored
R_PruneWrite(h) ==
    /\ At(h, "rate") /\ handler[h].rl = "write"
    /\ user_downloads' =
         [user_downloads EXCEPT ![Key(h)] = handler[h].kept]
    /\ handler' = [handler EXCEPT ![h].kept = <<>>, ![h].rl = "cmp"]
    /\ UNCHANGED <<config, clock, tasks, checks, nmsgs, nurls>>

\* a limiter that never blocks
LimitedNever(list) == FALSE

\* the comparison with > for >=
LimitedOffByOne(list) == Len(list) > RATE_LIMIT

\* len(user_downloads[user_id]) >= RATE_LIMIT
Limited(list) == Len(list) >= RATE_LIMIT

Checked(h, ok) ==
    checks' = [checks EXCEPT ![handler[h].user] =
                 Append(@, [t |-> handler[h].now, ok |-> ok])]

\* a limiter that records the blocked attempt as well
BlockedRecorded(list, now) == Append(list, now)

\* return True: the list of a blocked check stays as pruned
Blocked(list, now) == list

\* is_rate_limited returns True; handle_url replies and returns
R_Compare(h) ==
    /\ At(h, "rate") /\ handler[h].rl = "cmp"
    /\ IF Limited(user_downloads[Key(h)])
       THEN /\ Goto(h, Rejected(handler[h].stage), "ratelimited")
            /\ Checked(h, FALSE)
            /\ user_downloads' =
                 [user_downloads EXCEPT ![Key(h)] = Blocked(@, handler[h].now)]
       ELSE /\ handler' = [handler EXCEPT ![h].rl = "append"]
            /\ UNCHANGED <<checks, user_downloads>>
    /\ UNCHANGED <<config, clock, tasks, nmsgs, nurls>>

\* user_downloads[user_id].append(now); is_rate_limited returns False
R_Append(h) ==
    /\ At(h, "rate") /\ handler[h].rl = "append"
    /\ user_downloads' =
         [user_downloads EXCEPT ![Key(h)] = Append(@, handler[h].now)]
    /\ Checked(h, TRUE)
    /\ handler' = [handler EXCEPT ![h].rl = "done", ![h].stage = @ + 1]
    /\ UNCHANGED <<config, clock, tasks, nmsgs, nurls>>

\* url = text.strip(); if it has no http(s) scheme: reply; return
H_Validate(h) ==
    /\ At(h, "validate")
    /\ IF ValidUrl(Strip(handler[h].text))
       THEN handler' = [handler EXCEPT ![h].url = Strip(handler[h].text),
                                       ![h].stage = @ + 1]
       ELSE Goto(h, Rejected(handler[h].stage), "invalid")
    /\ UNCHANGED <<config, user_downloads, clock, tasks, checks, nmsgs, nurls>>

(***************************************************************************)
(* Worker tasks: download_and_upload, with download_file and               *)
(* generate_thumbnail.                                                     *)
(***************************************************************************)
\* no send call yet
NoCall == [call |-> "", streaming |-> FALSE, thumb |-> "none"]

\* the closure submitted, with the status message just created.  The
\* locals of download_file (cl, got) live until it returns, those of
\* download_and_upload (err, mime, thumb, and what the task has called) until
\* an exception or the end of the task.
NewTask ==
    [pc |-> "queued",
     cl |-> 0,             \* file_size of download_file
     got |-> 0,            \* body chunks read
     file |-> "none",      \* the temporary file: none, exists, removed
     path |-> FALSE,       \* download_file returned a file path
     err |-> "",           \* the error download_file returned instead
     mime |-> <<>>,        \* the sniffed type
     thumbCalled |-> FALSE,  \* generate_thumbnail was called
     thumb |-> "none",
     kind |-> NoCall,      \* the send call made
     calls |-> 0,          \* send calls made, returned or not
     msg |-> "starting",   \* the status message's text
     deleted |-> FALSE,    \* the status message was deleted
     sent |-> 0,           \* send calls that returned
     result |-> ""]        \* ok, failed (error shown), raised (edit raised)

\* executor.submit puts the task on the pool's queue, which has no bound:
\* it never waits and never refuses
CanSubmit == TRUE

\* status_msg = reply_text("Starting download..."), the closures, and
\* executor.submit(download_and_upload); handle_url returns
H_Submit(h) ==
    /\ At(h, "submit")
    /\ CanSubmit
    /\ tasks' = Append(tasks, NewTask)
    /\ Goto(h, handler[h].stage + 1, "starting")
    /\ UNCHANGED <<config, user_downloads, clock, checks, nmsgs, nurls>>

\* handle_url has returned: the thread takes the next update
H_Return(h) ==
    /\ At(h, "end")
    /\ handler' = [handler EXCEPT ![h] = IdleHandler]
    /\ UNCHANGED <<config, user_downloads, clock, tasks, checks, nmsgs, nurls>>

\* a pool that loses the thread of every task that fails
RunningOrFailed ==
    {t \in 1..Len(tasks) :
       \/ tasks[t].pc \notin {"queued", "done"}
       \/ tasks[t].pc = "done" /\ tasks[t].result # "ok"}

\* the tasks that occupy a pool thread: a thread is free again when its task
\* has ended, with or without an exception
Running == {t \in 1..Len(tasks) : tasks[t].pc \notin {"queued", "done"}}

Set(t, f) == tasks' = [tasks EXCEPT ![t] = f]

\* a worker whose steps give the users' slots back
SameRestRefund ==
    /\ user_downloads' = [u \in DOMAIN user_downloads |-> <<>>]
    /\ UNCHANGED <<config, clock, handler, checks, nmsgs, nurls>>

\* download_and_upload, download_file and generate_thumbnail refer to
\* nothing of the handler's and the limiter's state
SameRest == UNCHANGED <<config, user_downloads, clock, handler, checks, nmsgs, nurls>>

\* a pool with one more thread
five_workers == max_workers + 1

\* the pool's threads: ThreadPoolExecutor(max_workers=4)
PoolSize == max_workers

\* a pool thread takes the oldest queued task
W_Start(t) ==
    /\ t \in DOMAIN tasks
    /\ tasks[t].pc = "queued"
    /\ \A s \in 1..(t - 1) : tasks[s].pc # "queued"
    /\ Cardinality(Running) < PoolSize
    /\ Set(t, [tasks[t] EXCEPT !.pc = "get"])
    /\ SameRest

\* a fetch without the size check
TooLargeNever(file_size) == FALSE

\* if file_size > MAX_FILE_SIZE
TooLarge(file_size) == file_size > MAX_FILE_SIZE

\* download_file returns (None, error): its locals are gone, the temporary
\* file stays as it is
Failed(task, error) ==
    [task EXCEPT !.cl = 0, !.got = 0, !.err = error, !.pc = "fetch_failed"]

\* download_and_upload ends: its locals are gone
Ended(task, result) ==
    [task EXCEPT !.err = "", !.mime = <<>>, !.thumb = "none", !.kind = NoCall,
                 !.thumbCalled = FALSE, !.pc = "done", !.result = result]

\* download_file: requests.get, raise_for_status, the Content-Length check,
\* the temporary file
W_Get(t) ==
    /\ t \in DOMAIN tasks /\ tasks[t].pc = "get"
    /\ budget.steps
    /\ \/ Set(t, Failed(tasks[t], "error"))
       \/ \E cl \in ContentLengths :
            IF TooLarge(cl)
            THEN Set(t, Failed(tasks[t], "too_large"))
            ELSE Set(t, [tasks[t] EXCEPT !.cl = cl, !.file = "exists",
                                         !.pc = "stream"])
    /\ SameRest

\* download_file: one round of the loop over iter_content, with the
\* progress callback's edit of the status message; after the loop
\* file_size and downloaded are read no more
W_Chunk(t) ==
    /\ t \in DOMAIN tasks /\ tasks[t].pc = "stream"
    /\ \/ /\ tasks[t].got < MaxChunks
          /\ IF tasks[t].cl > 0
             THEN \/ Set(t, [tasks[t] EXCEPT !.got = @ + 1, !.msg = "pct"])
                  \/ Set(t, Failed(tasks[t], "error"))
             ELSE Set(t, [tasks[t] EXCEPT !.got = @ + 1])
       \/ Set(t, Failed(tasks[t], "error"))
       \/ Set(t, [tasks[t] EXCEPT !.cl = 0, !.got = 0, !.pc = "sniff"])
    /\ SameRest

\* download_file: mime.from_buffer, and the return of (path, type)
W_Sniff(t) ==
    /\ t \in DOMAIN tasks /\ tasks[t].pc = "sniff"
    /\ \/ Set(t, Failed(tasks[t], "error"))
       \/ \E m \in MimeTypes :
            Set(t, [tasks[t] EXCEPT !.mime = m, !.path = TRUE, !.pc = "fetched"])
    /\ SameRest

\* an exception reaches the except block, which reads file_path only
Raised(task) ==
    [task EXCEPT !.mime = <<>>, !.thumb = "none",
                 !.thumbCalled = FALSE, !.pc = "except"]

\* an error path that leaves the status message as it is
ErrorNotShown(task) == task

\* edit_message_text with the error's text, when the call returns
ErrorShown(task) == [task EXCEPT !.msg = "error"]

\* if not file_path: edit the status message to the error; return
W_FetchFailed(t) ==
    /\ t \in DOMAIN tasks /\ tasks[t].pc = "fetch_failed"
    /\ \/ Set(t, Ended(ErrorShown(tasks[t]), "failed"))
       \/ Set(t, Raised(tasks[t]))
    /\ SameRest

\* mime_type.startswith(('image/', 'video/'))
IsMedia(mime) == StartsWith(mime, "image") \/ StartsWith(mime, "video")

\* a thumbnailer whose failure propagates to the caller
ThumbnailRaises(task, th) ==
    IF th = "none" THEN Raised(task)
    ELSE [task EXCEPT !.thumbCalled = TRUE, !.thumb = th, !.pc = "notify"]

\* generate_thumbnail returns th: a JPEG, or None from its except clause
Thumbnailed(task, th) ==
    [task EXCEPT !.thumbCalled = TRUE, !.thumb = th, !.pc = "notify"]

\* thumb = None; generate_thumbnail for media types only
W_Thumb(t) ==
    /\ t \in DOMAIN tasks /\ tasks[t].pc = "fetched"
    /\ IF IsMedia(tasks[t].mime)
       THEN \E th \in {"jpeg", "none"} : Set(t, Thumbnailed(tasks[t], th))
       ELSE Set(t, [tasks[t] EXCEPT !.pc = "notify"])
    /\ SameRest

\* the edit of the status message to "Uploading to Telegram..."
W_Notify(t) ==
    /\ t \in DOMAIN tasks /\ tasks[t].pc = "notify"
    /\ \/ Set(t, [tasks[t] EXCEPT !.msg = "uploading", !.pc = "upload"])
       \/ Set(t, Raised(tasks[t]))
    /\ SameRest

\* a routing that sends audio as a document
UploadKindNoAudio(mime) ==
    IF StartsWith(mime, "image") THEN "photo"
    ELSE IF StartsWith(mime, "video") THEN "video"
    ELSE "document"

\* the send call chosen by the type's prefix
UploadKind(mime) ==
    IF StartsWith(mime, "image") THEN "photo"
    ELSE IF StartsWith(mime, "video") THEN "video"
    ELSE IF StartsWith(mime, "audio") THEN "audio"
    ELSE "document"

\* the call with its keyword arguments: supports_streaming for a video,
\* thumb for all but send_audio
SendCall(mime, thumb) ==
    [call |-> UploadKind(mime),
     streaming |-> StartsWith(mime, "video"),
     thumb |-> IF UploadKind(mime) = "audio" THEN "none" ELSE thumb]

\* the send call is made
Called(task) ==
    [task EXCEPT !.kind = SendCall(task.mime, task.thumb), !.calls = @ + 1]

\* open(file_path) and the send call: the call returns, the call raises,
\* or open raises before it
W_Upload(t) ==
    /\ t \in DOMAIN tasks /\ tasks[t].pc = "upload"
    /\ \/ Set(t, [Called(tasks[t]) EXCEPT !.sent = @ + 1, !.pc = "cleanup"])
       \/ Set(t, Raised(Called(tasks[t])))
       \/ Set(t, Raised(tasks[t]))
    /\ SameRest

\* a success path that keeps the status message
StatusKept(task) == task

\* delete_message, when the call returns
StatusDeleted(task) == [task EXCEPT !.deleted = TRUE]

\* os.unlink(file_path); delete_message
W_Cleanup(t) ==
    /\ t \in DOMAIN tasks /\ tasks[t].pc = "cleanup"
    /\ \/ Set(t, Ended(StatusDeleted([tasks[t] EXCEPT !.file = "removed"]), "ok"))
       \/ Set(t, Raised([tasks[t] EXCEPT !.file = "removed"]))
    /\ SameRest

\* the end of the except block, reached once its edit has returned:
\* if file_path and os.path.exists(file_path): os.unlink(file_path)
UnlinkOnError(task) ==
    IF task.path /\ task.file = "exists" THEN "removed" ELSE task.file

\* except Exception: the edit of the status message to the error, then
\* the removal of the file; an edit that raises ends the task there
W_Except(t) ==
    /\ t \in DOMAIN tasks /\ tasks[t].pc = "except"
    /\ \/ Set(t, Ended([ErrorShown(tasks[t]) EXCEPT
                            !.file = UnlinkOnError(tasks[t])], "failed"))
       \/ Set(t, Ended(tasks[t], "raised"))
    /\ SameRest

(***************************************************************************)
(* The specification.                                                      *)
(***************************************************************************)
\* the module's globals after import, and nothing received yet
Started ==
    /\ user_downloads = <<>>
    /\ clock = 0 - 1
    /\ handler = [h \in HandlerThreads |-> IdleHandler]
    /\ tasks = <<>>
    /\ checks = [u \in Users |-> <<>>]
    /\ nmsgs = 0
    /\ nurls = 0

Setup ==
    /\ \E env \in AllowedEnvs : ALLOWED_USERS = AllowedUsersOf(env)
    /\ RATE_LIMIT \in RateLimits
    /\ user_downloads = <<>>
    /\ clock = 0 - 1
    /\ handler = [h \in HandlerThreads |-> IdleHandler]
    /\ tasks = <<>>
    /\ checks = [u \in Users |-> <<>>]
    /\ nmsgs = 0
    /\ nurls = 0

HandlerStep ==
    \E h \in HandlerThreads :
      \/ H_Receive(h) \/ H_Auth(h)
      \/ R_Now(h) \/ R_PruneRead(h) \/ R_PruneWrite(h)
      \/ R_Compare(h) \/ R_Append(h)
      \/ H_Validate(h) \/ H_Submit(h) \/ H_Return(h)

\* a task per message with a URL at most, where tasks run
TaskIds == 1..(MaxRequests + max_workers)

WorkerStep ==
    \E t \in TaskIds :
      \/ W_Start(t) \/ W_Get(t) \/ W_Chunk(t) \/ W_Sniff(t)
      \/ W_FetchFailed(t) \/ W_Thumb(t) \/ W_Notify(t) \/ W_Upload(t)
      \/ W_Cleanup(t) \/ W_Except(t)

\* the whole program: the handler and the workers
Init ==
    Setup /\ budget = [msgs |-> MaxRequests, urls |-> MaxRequests,
                       time |-> MaxTime, steps |-> TRUE]

Next == HandlerStep \/ WorkerStep

Spec == Init /\ [][Next]_vars

\* download_and_upload from its first statement to its end, as one step:
\* the whole success path, a fetch that fails at once and is reported, or
\* one whose report raises as well
W_Pipeline(t) ==
    /\ t \in DOMAIN tasks /\ tasks[t].pc = "get"
    /\ ~budget.steps
    /\ \/ Set(t, Ended(StatusDeleted(
                 [tasks[t] EXCEPT !.file = "removed", !.path = TRUE,
                                  !.msg = "uploading", !.sent = 1, !.calls = 1]),
                 "ok"))
       \/ Set(t, Ended(ErrorShown(tasks[t]), "failed"))
       \/ Set(t, Ended(tasks[t], "raised"))
    /\ SameRest

PoolStep == \E t \in TaskIds : W_Start(t) \/ W_Pipeline(t)

\* a burst on the pool: all messages arrive at one instant, user 7 alone is
\* allowed, the threshold lets through more requests than the pool has
\* workers, and each task runs as one step
InitPool ==
    /\ ALLOWED_USERS = AllowedUsersOf(<<"7">>)
    /\ RATE_LIMIT = max_workers + MaxRequests
    /\ Started
    /\ budget = [msgs |-> max_workers + MaxRequests,
                 urls |-> max_workers + MaxRequests,
                 time |-> 0, steps |-> FALSE]

NextPool == HandlerStep \/ PoolStep

SpecPool == InitPool /\ [][NextPool]_vars

\* a single message, its task followed step by step
InitOne ==
    Setup /\ budget = [msgs |-> 1, urls |-> 1, time |-> MaxTime, steps |-> TRUE]

\* both: one request with its task followed step by step, or a burst on the
\* pool with each task run as one step; every pool thread that can take a
\* task or go on with one eventually does
InitAny == InitOne \/ InitPool

NextAny ==
    \/ HandlerStep
    \/ \E t \in TaskIds :
         \/ W_Start(t) \/ W_Get(t) \/ W_Chunk(t) \/ W_Sniff(t)
         \/ W_FetchFailed(t) \/ W_Thumb(t) \/ W_Notify(t) \/ W_Upload(t)
         \/ W_Cleanup(t) \/ W_Except(t) \/ W_Pipeline(t)

\* the steps of task t
TaskStep(t) ==
    \/ W_Start(t) \/ W_Get(t) \/ W_Chunk(t) \/ W_Sniff(t)
    \/ W_FetchFailed(t) \/ W_Thumb(t) \/ W_Notify(t) \/ W_Upload(t)
    \/ W_Cleanup(t) \/ W_Except(t) \/ W_Pipeline(t)

FairSpec ==
    InitAny /\ [][NextAny]_vars /\ \A t \in TaskIds : WF_vars(TaskStep(t))

\* the access check alone, over more allow-lists: messages are received and
\* checked, and those that pass go no further
InitAccess ==
    /\ \E env \in AccessEnvs : ALLOWED_USERS = AllowedUsersOf(env)
    /\ RATE_LIMIT \in RateLimits
    /\ Started
    /\ budget = [msgs |-> MaxMessages, urls |-> MaxMessages,
                 time |-> MaxTime, steps |-> TRUE]

AccessStep == \E h \in HandlerThreads : H_Receive(h) \/ H_Auth(h) \/ H_Return(h)

SpecAccess == InitAccess /\ [][AccessStep]_vars

\* the message handler while the pool runs nothing: submitted tasks stay queued
InitHandler ==
    Setup /\ budget = [msgs |-> MaxMessages, urls |-> MaxMessages,
                       time |-> MaxTime, steps |-> TRUE]

SpecHandler == InitHandler /\ [][HandlerStep]_vars

(***************************************************************************)
(* Properties.                                                             *)
(***************************************************************************)
Threshold == IF RATE_LIMIT > 0 THEN RATE_LIMIT ELSE 0

\* the number of admitted checks among the first k of a user's checks
RECURSIVE AdmittedIn(_, _)
AdmittedIn(c, k) ==
    IF k = 0 THEN 0 ELSE AdmittedIn(c, k - 1) + (IF c[k].ok THEN 1 ELSE 0)

Active(h) == handler[h].stage > 0

Rejections == {"unauthorized", "ratelimited", "invalid"}

RejectedAs(h) == {r \in Rejections : InList(r, handler[h].replies)}

\* C1: with a threshold N >= 1 and starting from an empty window, a user's
\* first N checks within 60 seconds of the first are all admitted, the
\* (N+1)th within those 60 seconds is blocked, and a check made 60 seconds
\* or more after the first, when N checks had been admitted, is admitted.
C1_WindowAdmitsN ==
    RATE_LIMIT >= 1 =>
      \A u \in Users : \A k \in 1..Len(checks[u]) :
        LET c == checks[u]
            inWindow == c[k].t - c[1].t < Window
        IN  /\ (k <= RATE_LIMIT /\ inWindow) => c[k].ok
            /\ (k = RATE_LIMIT + 1 /\ inWindow) => ~c[k].ok
            /\ (AdmittedIn(c, k - 1) = RATE_LIMIT /\ ~inWindow) => c[k].ok

\* N admitted, the (N+1)th blocked in the window, the next admitted after it
C1_Witness ==
    /\ RATE_LIMIT >= 1
    /\ \E u \in Users :
         LET c == checks[u] IN
         /\ Len(c) = RATE_LIMIT + 2
         /\ \A k \in 1..RATE_LIMIT : c[k].ok
         /\ ~c[RATE_LIMIT + 1].ok
         /\ c[RATE_LIMIT + 1].t - c[1].t < Window
         /\ c[RATE_LIMIT + 2].ok
         /\ c[RATE_LIMIT + 2].t - c[1].t >= Window

StoredIn(dict, u) == IF u \in DOMAIN dict THEN dict[u] ELSE <<>>

\* C5: a message whose text is not an http(s) URL, once it has got the
\* invalid-URL reply, has not gone through the rate limiter: every user's
\* stored timestamps are as they were when the message arrived, and no
\* task has been submitted.
C5_InvalidUrlTouchesNothing ==
    \A h \in HandlerThreads :
      (At(h, "end") /\ InList("invalid", handler[h].replies)) =>
        /\ ~ValidUrl(Strip(handler[h].text))
        /\ \A u \in Users :
             StoredIn(user_downloads, u) = StoredIn(handler[h].snap, u)
        /\ Len(tasks) = handler[h].tasks0

\* C6: a request rejected as unauthorized, rate limited or invalid has
\* returned from the handler with exactly one reply, which is the rejection,
\* no status message and no task submitted.
C6_RejectedBeforeSubmit ==
    \A h \in HandlerThreads :
      RejectedAs(h) # {} =>
        /\ At(h, "end")
        /\ Len(handler[h].replies) = 1
        /\ ~InList("starting", handler[h].replies)
        /\ Len(tasks) = handler[h].tasks0

\* with a threshold N >= 1, the (N+1)th URL of a user in the window is
\* rejected by the rate limiter
C6_Witness ==
    \E h \in HandlerThreads :
      /\ At(h, "end")
      /\ handler[h].replies = <<"ratelimited">>
      /\ ValidUrl(Strip(handler[h].text))
      /\ RATE_LIMIT >= 1
      /\ Len(checks[handler[h].user]) = RATE_LIMIT + 1
      /\ Len(tasks) > 0

\* C7: a message from a user who is not allowed gets the unauthorized reply,
\* and while it is handled the rate-window state of every user stays as it
\* was when the message arrived; no check is recorded for the sender.
C7_UnauthorizedLeavesWindows ==
    \A h \in HandlerThreads :
      (Active(h) /\ ~is_user_allowed(handler[h].user)) =>
        /\ user_downloads = handler[h].snap
        /\ checks[handler[h].user] = <<>>
        /\ handler[h].user \notin DOMAIN user_downloads
        /\ At(h, "end") => handler[h].replies = <<"unauthorized">>

\* an unauthorized message handled after other users' windows were filled
C7_Witness ==
    \E h \in HandlerThreads :
      /\ At(h, "end")
      /\ handler[h].replies = <<"unauthorized">>
      /\ nmsgs >= 3
      /\ \E u \in DOMAIN user_downloads : user_downloads[u] # <<>>

Tasks == 1..Len(tasks)

\* the checks of a user that were admitted and are within the window now
RECURSIVE LiveAdmitted(_)
LiveAdmitted(c) ==
    IF c = <<>> THEN <<>>
    ELSE IF Head(c).ok /\ clock - Head(c).t < Window
         THEN <<Head(c).t>> \o LiveAdmitted(Tail(c))
         ELSE LiveAdmitted(Tail(c))

IsSuffix(s, list) ==
    Len(s) <= Len(list) /\ SubSeq(list, Len(list) - Len(s) + 1, Len(list)) = s

InCheck(h) ==
    At(h, "rate") /\ handler[h].rl \in {"read", "write", "cmp", "append"}

C3_TempFileRemovedAfterFetch ==
    \A t \in Tasks :
      (tasks[t].pc = "done" /\ tasks[t].path) => tasks[t].file # "exists"

\* C4: a task whose fetch failed after the temporary file was created has
\* removed the file when it terminates.
C4_TempFileRemovedOnFetchFailure ==
    \A t \in Tasks :
      (tasks[t].pc = "done" /\ ~tasks[t].path) => tasks[t].file # "exists"

\* C8 as stated: a task that terminates after a failure leaves its status
\* message showing the error's text, not deleted.
C8_FailureAlwaysShown ==
    \A t \in Tasks :
      (tasks[t].pc = "done" /\ tasks[t].result # "ok") =>
        tasks[t].msg = "error" /\ ~tasks[t].deleted

\* C8, amended: a task that terminates after a failure never deletes its
\* status message; the message shows the error's text when the last
\* error-reporting edit returned, and when that edit raised it is left with
\* the text it had (starting, a percentage or the upload notice).
C8_FailureShownUnlessEditRaises ==
    \A t \in Tasks :
      tasks[t].pc = "done" =>
        /\ tasks[t].result \in {"ok", "failed", "raised"}
        /\ tasks[t].result = "failed" =>
             tasks[t].msg = "error" /\ ~tasks[t].deleted
        /\ tasks[t].result = "raised" =>
             tasks[t].msg \in {"starting", "pct", "uploading"} /\ ~tasks[t].deleted

\* a task that fetched its file, failed before the send call returned,
\* reported the error and removed the file
C8_Witness ==
    \E t \in Tasks :
      /\ tasks[t].pc = "done" /\ tasks[t].result = "failed"
      /\ tasks[t].msg = "error"
      /\ tasks[t].path /\ tasks[t].sent = 0 /\ tasks[t].file = "removed"

\* C9 as stated, its part on the deletion: once a task whose upload call
\* succeeded has terminated, its status message is deleted.
C9_DeletedAfterUpload ==
    \A t \in Tasks :
      (tasks[t].pc = "done" /\ tasks[t].sent > 0) => tasks[t].deleted

Count(x, list) == Cardinality({i \in 1..Len(list) : list[i] = x})

\* C9, amended: a request that is submitted has had exactly one status
\* message created, and no other request has one.  The message reads
\* "starting" until the download, "starting" or a percentage until the
\* upload notice, and the upload notice from then on: no percentage follows
\* the notice.  It is deleted only by the deletion that follows a successful
\* upload: it is deleted when that call returns, which ends the task (no
\* edit follows), and when that call raises it is not deleted and the task
\* goes on to report the error.
C9_StatusLifecycle ==
    /\ \A h \in HandlerThreads :
         Active(h) =>
           /\ Count("starting", handler[h].replies) = Len(tasks) - handler[h].tasks0
           /\ Count("starting", handler[h].replies) <= 1
    /\ \A t \in Tasks :
         LET k == tasks[t] IN
         /\ k.pc \in {"queued", "get"} => k.msg = "starting"
         /\ k.pc \in {"stream", "sniff", "fetched", "notify", "fetch_failed"}
              => k.msg \in {"starting", "pct"}
         /\ k.pc = "upload" => k.msg = "uploading" /\ k.sent = 0
         /\ k.pc = "cleanup" => k.msg = "uploading" /\ k.sent = 1
         /\ k.deleted <=> (k.pc = "done" /\ k.result = "ok")
         /\ k.deleted => k.msg = "uploading" /\ k.sent = 1
         /\ (k.pc = "done" /\ k.sent > 0 /\ ~k.deleted) => k.result # "ok"

\* a task that ran the whole success path: sent, file removed, message
\* deleted while it read the upload notice
C9_Witness ==
    \E t \in Tasks :
      /\ tasks[t].pc = "done" /\ tasks[t].result = "ok"
      /\ tasks[t].deleted /\ tasks[t].msg = "uploading"
      /\ tasks[t].sent = 1 /\ tasks[t].file = "removed"

\* C10: a response that declares a Content-Length over the maximum makes
\* the fetch return the too-large error with no temporary file created and
\* no chunk read (no task is ever in the download loop with such a length),
\* and the worker then goes straight to reporting: no thumbnail, no upload.
C10_TooLargeStopsFetch ==
    \A t \in Tasks :
      LET k == tasks[t] IN
      /\ ~(k.cl > MAX_FILE_SIZE)
      /\ k.err = "too_large" =>
           /\ k.pc \in {"fetch_failed", "except"}
           /\ k.file = "none" /\ k.got = 0 /\ ~k.path
           /\ ~k.thumbCalled /\ k.calls = 0

\* a fetch stopped by the size check, its worker about to report the error
C10_Witness ==
    \E t \in Tasks :
      tasks[t].err = "too_large" /\ tasks[t].pc = "except"

\* C11 as stated, its count: a terminated task whose fetch returned a file
\* has made exactly one send call.
C11_ExactlyOneUpload ==
    \A t \in Tasks :
      (tasks[t].pc = "done" /\ tasks[t].path) => tasks[t].calls = 1

\* the send call that the code selects for a sniffed type, spelt out
RouteOf(mime) ==
    CASE mime[1] = "image" -> [call |-> "photo", streaming |-> FALSE]
      [] mime[1] = "video" -> [call |-> "video", streaming |-> TRUE]
      [] mime[1] = "audio" -> [call |-> "audio", streaming |-> FALSE]
      [] OTHER -> [call |-> "document", streaming |-> FALSE]

\* C11, amended: no task makes more than one send call, a call is made only
\* for a fetched file, and a task gets to the call exactly when the upload
\* notice was shown and the file opened (a task stopped by a failure of the
\* notice's edit makes none).  Every call made, whether it returns or
\* raises, is the one its type selects: image -> photo, video -> video with
\* the streaming flag, audio -> audio, any other -> document.
C11_UploadRouting ==
    /\ [](\A t \in Tasks :
            /\ tasks[t].calls <= 1 /\ tasks[t].sent <= tasks[t].calls
            /\ tasks[t].calls = 1 => tasks[t].path /\ tasks[t].msg # "starting"
            /\ tasks[t].pc = "cleanup" => tasks[t].sent = 1)
    /\ [][\A t \in Tasks :
            tasks'[t].calls # tasks[t].calls =>
              /\ tasks[t].pc = "upload"
              /\ tasks'[t].kind.call = RouteOf(tasks[t].mime).call
              /\ tasks'[t].kind.streaming = RouteOf(tasks[t].mime).streaming]_vars

\* a video has been sent with send_video and the streaming flag
C11_Witness ==
    \E t \in Tasks :
      /\ tasks[t].pc = "cleanup" /\ tasks[t].calls = 1
      /\ tasks[t].mime = <<"video", "mp4">>
      /\ tasks[t].kind.call = "video" /\ tasks[t].kind.streaming

\* C12: the step after the fetch never raises, it always goes on to the
\* upload notice: for image and video types the thumbnailer is called and
\* yields a JPEG or nothing, for any other type it is not called and there
\* is no thumbnail.  From there only a failure of the notice's edit keeps
\* the task from the send call, and a call made after a failed thumbnail
\* has no thumbnail attached.
C12_ThumbnailBestEffort ==
    [][\A t \in Tasks :
         LET k == tasks[t]
             n == tasks'[t]
             media == k.mime # <<>> /\ k.mime[1] \in {"image", "video"}
         IN  /\ (k.pc = "fetched" /\ n # k) =>
                   /\ n.pc = "notify"
                   /\ n.thumbCalled <=> media
                   /\ ~media => n.thumb = "none"
             /\ (k.pc = "notify" /\ n # k) =>
                   \/ n.pc = "upload" /\ n.thumb = k.thumb /\ n.msg = "uploading"
                   \/ n.pc = "except" /\ n.msg = k.msg
             /\ (n.calls # k.calls /\ k.thumb = "none") =>
                   n.kind.thumb = "none"]_vars

\* an image whose thumbnail failed has been sent, with no thumbnail
C12_Witness ==
    \E t \in Tasks :
      /\ tasks[t].pc = "cleanup" /\ tasks[t].sent = 1
      /\ tasks[t].mime = <<"image", "png">>
      /\ tasks[t].thumbCalled /\ tasks[t].thumb = "none"
      /\ tasks[t].kind = [call |-> "photo", streaming |-> FALSE, thumb |-> "none"]

\* how far a task has got: queued, executing, terminated
Progress(task) ==
    IF task.pc = "queued" THEN 0 ELSE IF task.pc = "done" THEN 2 ELSE 1

\* C13: never more than 4 tasks are executing; a handler that has got to
\* the submission can always make it, whatever the pool is doing; the
\* submission adds one queued task and no step removes a task or sets one
\* back; a queued task is taken only when fewer than 4 are executing.
C13_PoolOfFour ==
    /\ [](/\ Cardinality(Running) <= 4
          /\ \A h \in HandlerThreads : At(h, "submit") => ENABLED H_Submit(h))
    /\ [][/\ Len(tasks') >= Len(tasks)
          /\ \A t \in Tasks :
               /\ Progress(tasks'[t]) >= Progress(tasks[t])
               /\ (tasks[t].pc = "queued" /\ tasks'[t].pc # "queued") =>
                     Cardinality(Running) < 4
          /\ \A h \in HandlerThreads :
               (At(h, "submit") /\ handler'[h] # handler[h]) =>
                 /\ Len(tasks') = Len(tasks) + 1
                 /\ tasks'[Len(tasks')].pc = "queued"]_vars

\* four tasks executing, a fifth submitted and queued, the handler back
\* from the submission
C13_Witness ==
    /\ Cardinality(Running) = 4
    /\ Len(tasks) = 5 /\ tasks[5].pc = "queued"
    /\ \A h \in HandlerThreads : At(h, "end")

\* C14: from some moment on every task that was ever submitted has
\* terminated (and so has started), whatever the other tasks did and however
\* they ended; no step removes a task or sets one back, so a terminated task
\* stays so, and a step of one task changes no other task.
C14_EveryTaskTerminates ==
    /\ <>[](\A t \in Tasks : tasks[t].pc = "done")
    /\ [][/\ Len(tasks') >= Len(tasks)
          /\ \A t \in Tasks : Progress(tasks'[t]) >= Progress(tasks[t])
          /\ \A t, u \in Tasks :
               (tasks'[t] # tasks[t] /\ u # t) => tasks'[u] = tasks[u]]_vars

\* a burst in which the first four tasks failed and the fifth, queued behind
\* them, has terminated too
C14_Witness ==
    /\ Len(tasks) >= 5
    /\ \A t \in 1..4 : tasks[t].pc = "done" /\ tasks[t].result # "ok"
    /\ tasks[5].pc = "done"

\* the rate-limit check of this handler has returned
CheckDone(h) ==
    Active(h) /\ (handler[h].rl = "done" \/ InList("ratelimited", handler[h].replies))

\* the entries of a list that are less than 60 seconds old at time now
Unexpired(list, now) == SelectSeq(list, LAMBDA t : now - t < 60)

IsPrefix(s, list) == Len(s) <= Len(list) /\ SubSeq(list, 1, Len(s)) = s

\* C15: once a check of a user made at time now has returned, admitted or
\* blocked, every timestamp stored for the user is less than 60 seconds
\* older than now.  A user's list loses entries only in the pruning step of
\* a check of that user, which leaves exactly the unexpired ones; every
\* other step keeps the list or extends it.
C15_PrunedAtCheck ==
    /\ [](\A h \in HandlerThreads :
            CheckDone(h) =>
              \A i \in 1..Len(Stored(handler[h].user)) :
                handler[h].now - Stored(handler[h].user)[i] < 60)
    /\ [][\A u \in Users :
            ~IsPrefix(Stored(u), Stored(u)') =>
              \E h \in HandlerThreads :
                /\ At(h, "rate") /\ handler[h].user = u
                /\ Stored(u)' = Unexpired(Stored(u), handler[h].now)]_vars

\* a check that returned after an entry of the user had expired and been
\* removed, with a newer entry kept
C15_Witness ==
    \E h \in HandlerThreads :
      LET u == handler[h].user IN
      /\ CheckDone(h)
      /\ Len(Stored(u)) >= 2
      /\ \E k \in 1..Len(checks[u]) :
           checks[u][k].ok /\ handler[h].now - checks[u][k].t >= 60

\* C16: when a check has returned 'limited', the user's stored timestamps
\* are exactly those stored when the message arrived that are less than 60
\* seconds old at the check: the time of the blocked check is not among
\* them.  Every stored timestamp is the time of an admitted check, so
\* blocked attempts do not move the moment at which the window opens again.
C16_BlockedNotRecorded ==
    /\ \A h \in HandlerThreads :
         (At(h, "end") /\ handler[h].replies = <<"ratelimited">>) =>
           Stored(handler[h].user) =
             Unexpired(StoredIn(handler[h].snap, handler[h].user), handler[h].now)
    /\ \A u \in Users : \A i \in 1..Len(Stored(u)) :
         \E k \in 1..Len(checks[u]) :
           checks[u][k].ok /\ checks[u][k].t = Stored(u)[i]

\* a second blocked attempt in a row, made later than the first, with the
\* user's window full
C16_Witness ==
    \E h \in HandlerThreads :
      LET c == checks[handler[h].user] IN
      /\ At(h, "end") /\ handler[h].replies = <<"ratelimited">>
      /\ RATE_LIMIT >= 1
      /\ Len(c) >= 3
      /\ ~c[Len(c)].ok /\ ~c[Len(c) - 1].ok
      /\ c[Len(c)].t > c[Len(c) - 1].t
      /\ Len(Stored(handler[h].user)) = RATE_LIMIT

\* str(user_id) of the users of the model, written out
IdString(u) == CASE u = 7 -> "7" [] u = 42 -> "42"

\* C17: the access check of a message passes for every user when the
\* allow-list is empty, and otherwise passes exactly when the string form of
\* the user's id is one of the list's elements; the step changes nothing but
\* the handler's own position and reply.
C17_AccessCheck ==
    [][\A h \in HandlerThreads :
         (At(h, "auth") /\ handler'[h] # handler[h]) =>
           LET listed == \E i \in 1..Len(ALLOWED_USERS) :
                           ALLOWED_USERS[i] = IdString(handler[h].user)
               passed == handler'[h].replies = <<>>
           IN  /\ passed \/ handler'[h].replies = <<"unauthorized">>
               /\ ALLOWED_USERS = <<>> => passed
               /\ ALLOWED_USERS # <<>> => (passed <=> listed)
               /\ UNCHANGED <<config, user_downloads, clock, tasks, checks>>]_vars

\* with the list ["42", "7"], user 42 has passed the check
C17_Witness ==
    /\ ALLOWED_USERS = <<"42", "7">>
    /\ \E h \in HandlerThreads :
         handler[h].user = 42 /\ At(h, "rate") /\ handler[h].replies = <<>>

\* C18: with a threshold of 0 or more, no user ever has more timestamps
\* stored than the threshold; with a threshold of 0 or less no user has any,
\* and every check made was blocked.
C18_StoredWithinLimit ==
    \A u \in Users :
      /\ RATE_LIMIT >= 0 => Len(Stored(u)) <= RATE_LIMIT
      /\ RATE_LIMIT <= 0 =>
           /\ Len(Stored(u)) = 0
           /\ \A k \in 1..Len(checks[u]) : ~checks[u][k].ok

\* a user whose list is full, with a threshold of 2, after an earlier entry
\* expired and a later check was blocked
C18_Witness ==
    /\ RATE_LIMIT = 2
    /\ \E u \in Users :
         /\ Len(Stored(u)) = 2
         /\ AdmittedIn(checks[u], Len(checks[u])) = 3
         /\ ~checks[u][Len(checks[u])].ok

\* the admitted checks among the first k of a user that are less than 60
\* seconds older than time now
OwnLive(c, k, now) ==
    Cardinality({j \in 1..k : c[j].ok /\ now - c[j].t < 60})

\* C19: a step of a check of one user leaves the list stored for every
\* other user as it was, and the outcome of every check of a user is what
\* the user's own earlier checks determine: it is admitted exactly when
\* fewer than RATE_LIMIT of the user's own admitted checks are less than 60
\* seconds old.
C19_PerUserIsolation ==
    /\ [](\A u \in Users : \A k \in 1..Len(checks[u]) :
            checks[u][k].ok <=>
              OwnLive(checks[u], k - 1, checks[u][k].t) < RATE_LIMIT)
    /\ [][\A h \in HandlerThreads : \A u \in Users :
            (At(h, "rate") /\ handler'[h] # handler[h] /\ u # handler[h].user) =>
              Stored(u)' = Stored(u)]_vars

\* user 7 has filled the window and been blocked, and user 42 is admitted
\* at the same instant
C19_Witness ==
    /\ RATE_LIMIT >= 1
    /\ Len(checks[7]) = RATE_LIMIT + 1 /\ ~checks[7][RATE_LIMIT + 1].ok
    /\ Len(checks[42]) = 1 /\ checks[42][1].ok
    /\ checks[42][1].t = checks[7][RATE_LIMIT + 1].t
    /\ Len(Stored(7)) = RATE_LIMIT /\ Len(Stored(42)) = 1

\* C20: user_downloads changes only in a step of the rate-limit check of a
\* handler; a step of a worker task, whatever it is and however it ends,
\* leaves user_downloads, the clock and the record of checks as they were.
\* So the timestamp of every admitted check that is less than 60 seconds old
\* is still stored, also when the task of that request has failed.
C20_WorkersLeaveWindows ==
    /\ [](\A u \in Users : IsSuffix(LiveAdmitted(checks[u]), Stored(u)))
    /\ [][/\ user_downloads' # user_downloads =>
               \E h \in HandlerThreads :
                 At(h, "rate") /\ handler'[h] # handler[h] /\ tasks' = tasks
          /\ (\E t \in Tasks : tasks'[t] # tasks[t]) =>
               UNCHANGED <<user_downloads, clock, checks, handler>>]_vars

\* the task of an admitted request has failed after the fetch and the
\* request's timestamp is still stored
C20_Witness ==
    \E t \in Tasks : \E u \in Users :
      /\ tasks[t].pc = "done" /\ tasks[t].result = "failed" /\ tasks[t].path
      /\ Len(checks[u]) = 1 /\ checks[u][1].ok
      /\ Stored(u) = <<checks[u][1].t>>

=============================================================================
